---- MODULE Spec2Model ----
(***************************************************************************)
(* A model of envalid's cleanEnv (src/index.js): the resolution of raw     *)
(* values, the validation of one variable, the two-pass orchestration of   *)
(* validateSpecs over keys with and without requiredWhen, and the assembly *)
(* of the returned object.                                                 *)
(*                                                                         *)
(* JavaScript values are encoded as strings: a JS string "abc" is          *)
(* "s:abc", a number 3 is "n:3", and undefined, null and the test-only     *)
(* symbol have one encoding each.  An object is a function whose DOMAIN is *)
(* the set of its own keys, so an own key holding undefined is different   *)
(* from a missing key.                                                     *)
(***************************************************************************)
EXTENDS Naturals, Sequences, FiniteSets, TLC

VARIABLES
    pc,             \* position of the call: start, loop, endpass, assemble, report, finish, done, thrown, exited
    inputEnv,       \* the caller's environment object (its present content)
    inputEnv0,      \* the content of the caller's object when cleanEnv was called
    userKeys,       \* Object.keys(userSpecs) without NODE_ENV, in declaration order
    userSpecs,      \* the caller's spec map
    options,        \* the caller's options
    env,            \* cleanEnv's working environment
    envIsInput,     \* TRUE when env is the very object the caller passed
    specs,          \* the merged spec map
    keysToValidate, \* validateSpecs: the keys of the running pass
    idx,            \* validateSpecs: index of the next forEach iteration
    shouldProcessDeferments,
    hasDeferments,
    deferKeys,
    output,
    errors,
    depth,          \* number of recursive calls of validateSpecs made
    attempts,       \* history: the keys resolved and validated, in order
    failed,         \* history: key -> the error its attempt raised
    rwCalls,        \* history: the evaluations of requiredWhen
    thrown,         \* the error that left cleanEnv, or NoError
    finalOutput,
    reporterCalls,  \* history: the arguments of every reporter invocation
    result,         \* the returned object
    frozen,         \* Object.freeze was applied to the returned object
    writes          \* number of writes the caller attempted on the returned object

vars == <<pc, inputEnv, inputEnv0, userKeys, userSpecs, options, env, envIsInput,
          specs, keysToValidate, idx, shouldProcessDeferments, hasDeferments,
          deferKeys, output, errors, depth, attempts, failed, rwCalls, thrown,
          finalOutput, reporterCalls, result, frozen, writes>>

----------------------------------------------------------------------------
(* Bounds of the model *)

MaxUserKeys == 2

MaxWrites == 1

----------------------------------------------------------------------------
(* Values *)

Undef == "undefined"

Null == "null"

testOnlySymbol == "symbol:envalid - test only"

StringVals == {"s:", "s:a", "s:b", "s:3", "s:x", "s:f", "s:production",
               "s:development", "s:test", "s:staging"}

EmptyObj == [k \in {} |-> Undef]

\* x.k for an object x: undefined when k is not a key of x
Get(x, k) == IF k \in DOMAIN x THEN x[k] ELSE Undef

extend(x, y) == [k \in (DOMAIN x) \cup (DOMAIN y) |-> IF k \in DOMAIN y THEN y[k] ELSE x[k]]

NoError == [kind |-> "none", key |-> ""]

EnvMissingError(k) == [kind |-> "missing", key |-> k]

EnvError(k) == [kind |-> "invalid", key |-> k]

ConfigError(k) == [kind |-> "config", key |-> k]

----------------------------------------------------------------------------
(* Specs.  A spec is a record: parse names the _parse function ("none"     *)
(* when the spec has none), hasDefault / hasDevDefault are                 *)
(* hasOwnProperty('default') / hasOwnProperty('devDefault'), choices is    *)
(* "none" (no choices), "array" (items holds its members) or "notarray"    *)
(* (a truthy value that is no array), requiredWhen names the predicate     *)
(* ("none" when the spec has none).                                        *)

MkSpec(p, hd, d, hdd, dd, c, it, rw) ==
    [parse |-> p, hasDefault |-> hd, default |-> d, hasDevDefault |-> hdd,
     devDefault |-> dd, choices |-> c, items |-> it, requiredWhen |-> rw]

\* str({ choices: ['development', 'test', 'production'], default: 'production' })
NodeEnvSpec ==
    MkSpec("str", TRUE, "s:production", FALSE, Undef, "array",
           {"s:development", "s:test", "s:production"}, "none")

\* The _parse functions of the validators the specs of the model are made
\* with: str, num, and a custom validator whose parse function yields null.
\* The result is [ok |-> FALSE] when the function throws an EnvError.
Parse(p, rawValue) ==
    CASE p = "str" ->
            IF rawValue \in StringVals
            THEN [ok |-> TRUE, value |-> rawValue]
            ELSE [ok |-> FALSE, value |-> Undef]
      [] p = "num" ->
            IF rawValue = "s:3" THEN [ok |-> TRUE, value |-> "n:3"]
            ELSE IF rawValue = "s:" THEN [ok |-> TRUE, value |-> "n:0"]
            ELSE [ok |-> FALSE, value |-> Undef]
      [] OTHER -> [ok |-> TRUE, value |-> Null]

\* The requiredWhen predicates of the model: () => true, () => false and
\* output => output.A !== undefined
RequiredWhen(spec, out) ==
    CASE spec.requiredWhen = "always" -> TRUE
      [] spec.requiredWhen = "never" -> FALSE
      [] OTHER -> Get(out, "A") # Undef

Ok(v) == [ok |-> TRUE, value |-> v, error |-> NoError]

Throw(e) == [ok |-> FALSE, value |-> Undef, error |-> e]

validateVar(spec, name, rawValue) ==
    IF spec.parse = "none" THEN Throw(ConfigError(name))
    ELSE LET parsed == Parse(spec.parse, rawValue)
             value == parsed.value
         IN  IF ~parsed.ok THEN Throw(EnvError(name))
             ELSE IF spec.choices = "notarray" THEN Throw(ConfigError(name))
             ELSE IF spec.choices = "array" /\ value \notin spec.items
                  THEN Throw(EnvError(name))
             ELSE IF value \in {Null, Undef} THEN Throw(EnvError(name))
             ELSE Ok(value)

\* env.NODE_ENV !== 'production'
IsNotProd(e) == Get(e, "NODE_ENV") # "s:production"

getDevDefault(spec, e) ==
    IF spec.hasDevDefault /\ IsNotProd(e) THEN spec.devDefault ELSE Undef

getRawValue(spec, e, specKey) ==
    LET devDefault == getDevDefault(spec, e)
    IN  IF Get(e, specKey) = Undef
        THEN (IF devDefault = Undef THEN spec.default ELSE devDefault)
        ELSE e[specKey]

\* usingFalsyDefault without the hasOwnProperty checks
usingFalsyDefault_NoOwnCheck(spec, e, rawValue) ==
    \/ spec.default = rawValue
    \/ IsNotProd(e) /\ spec.devDefault = rawValue

usingFalsyDefault(spec, e, rawValue) ==
    \/ spec.hasDefault /\ spec.default = rawValue
    \/ spec.hasDevDefault /\ IsNotProd(e) /\ spec.devDefault = rawValue

validate(spec, specKey, rawValue, e) ==
    IF rawValue = Undef
    THEN IF ~usingFalsyDefault(spec, e, rawValue)
         THEN Throw(EnvMissingError(specKey))
         ELSE Ok(Undef)
    ELSE validateVar(spec, specKey, rawValue)

\* The try block of validateSpecs: assertTestOnlySymbol, then validate
Attempt(spec, specKey, rawValue, e) ==
    IF rawValue = testOnlySymbol
    THEN Throw(EnvMissingError(specKey))
    ELSE validate(spec, specKey, rawValue, e)

\* The keys of extend({ NODE_ENV: ... }, userSpecs), in Object.keys order
SpecKeys(uk) == <<"NODE_ENV">> \o uk

\* The keys of a pass, the deferred keys never chosen
KeysToValidate_AllKeys(dk, sk) == sk

\* The keys of a pass, the deferred keys taken last to first
KeysToValidate_Reversed(dk, sk) ==
    IF Len(dk) > 0 THEN [i \in 1..Len(dk) |-> dk[Len(dk) + 1 - i]] ELSE sk

\* The choice of the keys of a pass of validateSpecs
KeysToValidate(dk, sk) == IF Len(dk) > 0 THEN dk ELSE sk

----------------------------------------------------------------------------
(* The inputs of a call *)

UserKeyNames == <<"A", "B", "C", "D">>

UserKeySeq == SubSeq(UserKeyNames, 1, MaxUserKeys)

UserKeySet == {UserKeyNames[i] : i \in 1..MaxUserKeys}

Absent == "absent"

\* The object with the keys of f that hold a value
EnvOf(f) == [k \in {x \in DOMAIN f : f[x] # Absent} |-> f[k]]

\* What dotenv.parse yields for the .env file when there is one
DotEnvFile == ("U" :> "s:f") @@ ("A" :> "s:3")

Str(rw) == MkSpec("str", FALSE, Undef, FALSE, Undef, "none", {}, rw)

WithDefaults == MkSpec("str", TRUE, "s:a", TRUE, "s:b", "none", {}, "none")

RichMenu ==
    {Str(rw) : rw \in {"none", "always", "never", "ifA"}}
    \cup {WithDefaults,
          MkSpec("str", TRUE, "s:", FALSE, Undef, "array", {"s:a", "s:b"}, "none"),
          MkSpec("num", TRUE, Undef, FALSE, Undef, "none", {}, "none"),
          MkSpec("str", TRUE, testOnlySymbol, FALSE, Undef, "none", {}, "none"),
          MkSpec("null", FALSE, Undef, FALSE, Undef, "none", {}, "none")}
    \cup {MkSpec("none", FALSE, Undef, FALSE, Undef, "none", {}, rw) : rw \in {"none", "never"}}
    \cup {MkSpec("str", FALSE, Undef, FALSE, Undef, "notarray", {}, rw) : rw \in {"none", "never"}}

SmallMenu == {Str("none"), Str("never"), WithDefaults}

\* A user spec for NODE_ENV, which replaces the built-in one
NodeEnvOverride == MkSpec("str", TRUE, "s:development", FALSE, Undef, "none", {}, "none")

Reporters == {"null", "omitted", "custom"}

Setup(e, us, opts) ==
    /\ pc = "start"
    /\ inputEnv = e
    /\ inputEnv0 = e
    /\ userKeys = UserKeySeq
    /\ userSpecs = us
    /\ options = opts
    /\ env = EmptyObj
    /\ envIsInput = FALSE
    /\ specs = EmptyObj
    /\ keysToValidate = <<>>
    /\ idx = 1
    /\ shouldProcessDeferments = FALSE
    /\ hasDeferments = FALSE
    /\ deferKeys = <<>>
    /\ output = EmptyObj
    /\ errors = EmptyObj
    /\ depth = 0
    /\ attempts = <<>>
    /\ failed = EmptyObj
    /\ rwCalls = <<>>
    /\ thrown = NoError
    /\ finalOutput = [props |-> EmptyObj, hasFlags |-> FALSE, flags |-> EmptyObj]
    /\ reporterCalls = <<>>
    /\ result = [props |-> EmptyObj, hasFlags |-> FALSE, flags |-> EmptyObj]
    /\ frozen = FALSE
    /\ writes = 0

\* Calls that vary the spec map
InitSpecs ==
    \E us \in [UserKeySet -> RichMenu],
       ev \in [UserKeySet -> {Absent, "s:a", "s:3"}],
       ne \in {Absent, "s:test"},
       rep \in Reporters :
        Setup(EnvOf(ev @@ ("NODE_ENV" :> ne)), us,
              [dotEnvPath |-> "null", reporter |-> rep, strict |-> FALSE,
               transformer |-> "none"])

\* Calls that vary the environment and the options
InitOptions ==
    \E us \in [UserKeySet -> SmallMenu],
       ev \in [UserKeySet -> {Absent, "s:a"}],
       ne \in {Absent, "s:", "s:production", "s:development", "s:test", "s:staging"},
       u \in {Absent, "s:x"},
       ov \in BOOLEAN,
       dot \in {"null", "enoent", "file", "eacces"},
       rep \in Reporters,
       st \in BOOLEAN,
       tr \in {"none", "rename"} :
        Setup(EnvOf(ev @@ ("NODE_ENV" :> ne) @@ ("U" :> u)),
              IF ov THEN us @@ ("NODE_ENV" :> NodeEnvOverride) ELSE us,
              [dotEnvPath |-> dot, reporter |-> rep, strict |-> st,
               transformer |-> tr])

Init == InitSpecs \/ InitOptions

----------------------------------------------------------------------------
(* cleanEnv *)

\* extendWithDotEnv: the object it returns and whether it is inputEnv itself
extendWithDotEnv(ie, dotEnvPath) ==
    IF dotEnvPath = "enoent"
    THEN [env |-> ie, isInput |-> TRUE]
    ELSE [env |-> extend(DotEnvFile, ie), isInput |-> FALSE]

\* getEnv: the working environment and whether it is inputEnv itself
getEnv(ie, opts) ==
    LET e1 == IF opts.dotEnvPath # "null"
              THEN extendWithDotEnv(ie, opts.dotEnvPath)
              ELSE [env |-> ie, isInput |-> TRUE]
        e2 == IF Get(e1.env, "NODE_ENV") \in {Undef, "s:"}
              THEN [k \in (DOMAIN e1.env) \ {"NODE_ENV"} |-> e1.env[k]]
              ELSE e1.env
    IN  [env |-> e2, isInput |-> e1.isInput]

\* cleanEnv up to the call of validateSpecs
Start ==
    /\ pc = "start"
    /\ IF options.dotEnvPath = "eacces"
       THEN /\ pc' = "thrown"
            /\ thrown' = [kind |-> "io", key |-> ""]
            /\ UNCHANGED <<inputEnv, env, envIsInput, specs, keysToValidate,
                           shouldProcessDeferments>>
       ELSE LET g == getEnv(inputEnv, options)
                sp == extend([k \in {"NODE_ENV"} |-> NodeEnvSpec], userSpecs)
            IN  /\ env' = g.env
                /\ envIsInput' = g.isInput
                /\ inputEnv' = IF g.isInput THEN g.env ELSE inputEnv
                /\ specs' = sp
                /\ keysToValidate' = KeysToValidate(deferKeys, SpecKeys(userKeys))
                /\ shouldProcessDeferments' = (Len(deferKeys) > 0)
                /\ pc' = "loop"
                /\ UNCHANGED thrown
    /\ UNCHANGED <<inputEnv0, userKeys, userSpecs, options, idx, hasDeferments,
                   deferKeys, output, errors, depth, attempts, failed, rwCalls,
                   finalOutput, reporterCalls, result, frozen, writes>>

\* One iteration of keysToValidate.forEach in validateSpecs
ForEachKey ==
    /\ pc = "loop"
    /\ idx <= Len(keysToValidate)
    /\ LET specKey == keysToValidate[idx]
           spec == specs[specKey]
           hasRequiredWhen == spec.requiredWhen # "none"
           rawValue == getRawValue(spec, env, specKey)
           r == Attempt(spec, specKey, rawValue, env)
           required == RequiredWhen(spec, output)
       IN  IF ~shouldProcessDeferments /\ hasRequiredWhen
           THEN /\ hasDeferments' = TRUE
                /\ deferKeys' = Append(deferKeys, specKey)
                /\ idx' = idx + 1
                /\ UNCHANGED <<pc, output, errors, attempts, failed, rwCalls, thrown>>
           ELSE /\ attempts' = Append(attempts, specKey)
                /\ UNCHANGED <<hasDeferments, deferKeys>>
                /\ IF r.ok
                   THEN /\ output' = (specKey :> r.value) @@ output
                        /\ idx' = idx + 1
                        /\ UNCHANGED <<pc, errors, failed, rwCalls, thrown>>
                   ELSE /\ failed' = (specKey :> r.error) @@ failed
                        /\ rwCalls' = IF hasRequiredWhen
                                      THEN Append(rwCalls, [key |-> specKey,
                                                            seen |-> DOMAIN output,
                                                            result |-> required])
                                      ELSE rwCalls
                        /\ UNCHANGED output
                        /\ IF hasRequiredWhen /\ ~required
                           THEN /\ idx' = idx + 1
                                /\ UNCHANGED <<pc, errors, thrown>>
                           ELSE IF options.reporter = "null"
                           THEN /\ thrown' = r.error
                                /\ pc' = "thrown"
                                /\ UNCHANGED <<idx, errors>>
                           ELSE /\ errors' = (specKey :> r.error) @@ errors
                                /\ idx' = idx + 1
                                /\ UNCHANGED <<pc, thrown>>
    /\ UNCHANGED <<inputEnv, inputEnv0, userKeys, userSpecs, options, env, envIsInput,
                   specs, keysToValidate, shouldProcessDeferments, depth,
                   finalOutput, reporterCalls, result, frozen, writes>>

\* if (hasDeferments && deferKeys.length > 0)
MustRecurse(hd, dk) == hd /\ Len(dk) > 0

\* The recursive call of validateSpecs, whose result the caller returns as it is
Recurse ==
    /\ pc = "loop"
    /\ idx > Len(keysToValidate)
    /\ MustRecurse(hasDeferments, deferKeys)
    /\ errors' = EmptyObj
    /\ hasDeferments' = FALSE
    /\ keysToValidate' = KeysToValidate(deferKeys, SpecKeys(userKeys))
    /\ shouldProcessDeferments' = (Len(deferKeys) > 0)
    /\ idx' = 1
    /\ depth' = depth + 1
    /\ UNCHANGED <<pc, inputEnv, inputEnv0, userKeys, userSpecs, options, env,
                   envIsInput, specs, deferKeys, output, attempts, failed, rwCalls,
                   thrown, finalOutput, reporterCalls, result, frozen, writes>>

\* The flags, isTest taken for every mode that is not production
Flags_TestWhenNotProd(out) ==
    [isDevelopment |-> Get(out, "NODE_ENV") = "s:development",
     isDev |-> Get(out, "NODE_ENV") = "s:development",
     isProduction |-> Get(out, "NODE_ENV") = "s:production",
     isProd |-> Get(out, "NODE_ENV") = "s:production",
     isTest |-> Get(out, "NODE_ENV") # "s:production"]

\* The flags cleanEnv defines on the final output
Flags(out) ==
    [isDevelopment |-> Get(out, "NODE_ENV") = "s:development",
     isDev |-> Get(out, "NODE_ENV") = "s:development",
     isProduction |-> Get(out, "NODE_ENV") = "s:production",
     isProd |-> Get(out, "NODE_ENV") = "s:production",
     isTest |-> Get(out, "NODE_ENV") = "s:test"]

\* The merge with its arguments swapped: the environment wins
FinalProps_EnvWins(opts, e, out) == IF opts.strict THEN out ELSE extend(out, e)

\* options.strict ? output : extend(env, output)
FinalProps(opts, e, out) == IF opts.strict THEN out ELSE extend(e, out)

\* The transformer of the model: a function that returns a new object with
\* the enumerable keys of its argument in lower case
LowerCase(k) ==
    CASE k = "NODE_ENV" -> "node_env"
      [] k = "A" -> "a"
      [] k = "B" -> "b"
      [] k = "C" -> "c"
      [] k = "D" -> "d"
      [] OTHER -> "u"

Transform(o) ==
    [props |-> [l \in {LowerCase(k) : k \in DOMAIN o.props} |->
                    o.props[CHOOSE k \in DOMAIN o.props : LowerCase(k) = l]],
     hasFlags |-> FALSE,
     flags |-> EmptyObj]

\* validateSpecs returns; cleanEnv builds the final output
Assemble ==
    /\ pc = "loop"
    /\ idx > Len(keysToValidate)
    /\ ~MustRecurse(hasDeferments, deferKeys)
    /\ LET fo == [props |-> FinalProps(options, env, output),
                  hasFlags |-> TRUE,
                  flags |-> Flags(output)]
       IN  finalOutput' = IF options.transformer # "none" THEN Transform(fo) ELSE fo
    /\ pc' = "report"
    /\ UNCHANGED <<inputEnv, inputEnv0, userKeys, userSpecs, options, env, envIsInput,
                   specs, keysToValidate, idx, shouldProcessDeferments, hasDeferments,
                   deferKeys, output, errors, depth, attempts, failed, rwCalls, thrown,
                   reporterCalls, result, frozen, writes>>

\* Whether the default reporter may end the process: it may when there are errors
DefaultReporterExits(errs) == IF DOMAIN errs = {} THEN {FALSE} ELSE {FALSE, TRUE}

\* reporter({ errors, env: finalOutput })
Report ==
    /\ pc = "report"
    /\ reporterCalls' = Append(reporterCalls, [errors |-> errors, env |-> finalOutput])
    /\ IF options.reporter = "custom"
       THEN pc' = "finish"
       ELSE \E exits \in DefaultReporterExits(errors) :
                pc' = IF exits THEN "exited" ELSE "finish"
    /\ UNCHANGED <<inputEnv, inputEnv0, userKeys, userSpecs, options, env, envIsInput,
                   specs, keysToValidate, idx, shouldProcessDeferments, hasDeferments,
                   deferKeys, output, errors, depth, attempts, failed, rwCalls, thrown,
                   finalOutput, result, frozen, writes>>

\* strictProxy and Object.freeze; cleanEnv returns
Finish ==
    /\ pc = "finish"
    /\ result' = finalOutput
    /\ frozen' = TRUE
    /\ pc' = "done"
    /\ UNCHANGED <<inputEnv, inputEnv0, userKeys, userSpecs, options, env, envIsInput,
                   specs, keysToValidate, idx, shouldProcessDeferments, hasDeferments,
                   deferKeys, output, errors, depth, attempts, failed, rwCalls, thrown,
                   finalOutput, reporterCalls, writes>>

FlagNames == {"isDevelopment", "isDev", "isProduction", "isProd", "isTest"}

\* The flags are defined without writable: true
FlagWritable(isFrozen) == FALSE

\* The caller assigns to a flag of the returned object
WriteFlag ==
    /\ pc = "done"
    /\ writes < MaxWrites
    /\ result.hasFlags
    /\ \E f \in FlagNames, v \in BOOLEAN :
         result' = IF FlagWritable(frozen)
                   THEN [result EXCEPT !.flags = [result.flags EXCEPT ![f] = v]]
                   ELSE result
    /\ writes' = writes + 1
    /\ UNCHANGED <<pc, inputEnv, inputEnv0, userKeys, userSpecs, options, env,
                   envIsInput, specs, keysToValidate, idx, shouldProcessDeferments,
                   hasDeferments, deferKeys, output, errors, depth, attempts, failed,
                   rwCalls, thrown, finalOutput, reporterCalls, frozen>>

Next == Start \/ ForEachKey \/ Recurse \/ Assemble \/ Report \/ Finish \/ WriteFlag

Spec == Init /\ [][Next]_vars

----------------------------------------------------------------------------
(* Properties *)

Range(seq) == {seq[i] : i \in 1..Len(seq)}

IndexOf(seq, k) == CHOOSE i \in 1..Len(seq) : seq[i] = k

\* requiredWhen of k was evaluated and returned r
Evaluated(k, r) == \E i \in 1..Len(rwCalls) : rwCalls[i].key = k /\ rwCalls[i].result = r

\* k is a key of the merged spec map whose spec carries requiredWhen
HasRequiredWhen(k) == k \in DOMAIN specs /\ specs[k].requiredWhen # "none"

Deferred == SelectSeq(SpecKeys(userKeys), LAMBDA k : HasRequiredWhen(k))

NotDeferred == SelectSeq(SpecKeys(userKeys), LAMBDA k : ~HasRequiredWhen(k))

\* validateSpecs returned to cleanEnv
Validated == pc \in {"report", "finish", "done", "exited"}

\* C1: when options.reporter is not null, the reporter is invoked exactly
\* once, after every key was attempted, and the errors it is handed hold an
\* entry for every key whose attempt failed with a missing-value or an
\* invalid-value error, the deferred keys whose requiredWhen returned false
\* excepted.
C1_ReporterGetsEveryError ==
    (options.reporter # "null" /\ pc \in {"finish", "done", "exited"}) =>
        /\ Len(reporterCalls) = 1
        /\ Range(attempts) = DOMAIN specs
        /\ \A k \in DOMAIN failed :
             (failed[k].kind \in {"missing", "invalid"} /\ ~Evaluated(k, FALSE))
                => k \in DOMAIN reporterCalls[1].errors

\* C2: for a key absent from the environment whose spec declares default
\* and devDefault, whenever the validated NODE_ENV of the returned output is
\* "production" the raw value of the key is the default, not the devDefault.
C2_DefaultInProduction ==
    (pc = "done" /\ Get(output, "NODE_ENV") = "s:production") =>
        \A k \in DOMAIN specs :
            (k \notin DOMAIN env /\ specs[k].hasDefault /\ specs[k].hasDevDefault)
                => getRawValue(specs[k], env, k) = specs[k].default

\* The case of C3: k carries requiredWhen, declares no default and no
\* devDefault, has no value in the environment, and was attempted
C3_Case(k) ==
    /\ k \in DOMAIN specs
    /\ specs[k].requiredWhen # "none"
    /\ ~specs[k].hasDefault
    /\ ~specs[k].hasDevDefault
    /\ k \notin DOMAIN env
    /\ k \in Range(attempts)

\* C3: a key with requiredWhen, no default, no devDefault and no value in
\* the environment fails with a missing-value error; when requiredWhen
\* returns false the key has no entry in the output, the errors or the
\* returned object; when it returns true the error is recorded in the errors
\* if the reporter is not null, and thrown if the reporter is null.
C3_RequiredWhenDecides ==
    \A k \in UserKeySet \cup {"NODE_ENV"} :
        C3_Case(k) =>
            /\ k \in DOMAIN failed
            /\ failed[k] = EnvMissingError(k)
            /\ Evaluated(k, TRUE) \/ Evaluated(k, FALSE)
            /\ Evaluated(k, FALSE) =>
                 /\ k \notin DOMAIN output
                 /\ k \notin DOMAIN errors
                 /\ k \notin DOMAIN finalOutput.props
                 /\ k \notin DOMAIN result.props
                 /\ \A i \in 1..Len(reporterCalls) : k \notin DOMAIN reporterCalls[i].errors
                 /\ thrown # EnvMissingError(k)
            /\ (Evaluated(k, TRUE) /\ options.reporter # "null") =>
                 /\ k \in DOMAIN errors
                 /\ errors[k] = EnvMissingError(k)
                 /\ thrown = NoError
                 /\ \A i \in 1..Len(reporterCalls) :
                        Get(reporterCalls[i].errors, k) = EnvMissingError(k)
            /\ (Evaluated(k, TRUE) /\ options.reporter = "null") =>
                 /\ pc = "thrown"
                 /\ thrown = EnvMissingError(k)

\* Witness of C3: a returned call in which one such key was discarded and
\* another was recorded and reported
C3_Witness ==
    /\ pc = "done"
    /\ \E k1, k2 \in UserKeySet :
         /\ C3_Case(k1) /\ Evaluated(k1, FALSE)
         /\ C3_Case(k2) /\ Evaluated(k2, TRUE)
         /\ k2 \in DOMAIN reporterCalls[1].errors

\* C4: for every key whose raw value equals the declared default of its
\* spec (the test-only symbol aside), no error is raised and the output
\* holds that default unmodified.
C4_DefaultAccepted ==
    \A k \in Range(attempts) :
        (/\ specs[k].hasDefault
         /\ specs[k].default # testOnlySymbol
         /\ getRawValue(specs[k], env, k) = specs[k].default)
            => /\ k \notin DOMAIN failed
               /\ k \in DOMAIN output
               /\ output[k] = specs[k].default

\* C5: a configuration error (no parse function, choices that is no array)
\* is thrown out of cleanEnv at once, whatever the reporter and whether or
\* not the key carries requiredWhen: it is neither recorded nor discarded.
C5_ConfigErrorThrown ==
    \A k \in DOMAIN failed :
        failed[k].kind = "config" => (pc = "thrown" /\ thrown = failed[k])

\* C6 as stated: in non-strict mode the returned object is the merge of the
\* working environment with the validated output, the output winning, and
\* holds NODE_ENV = "production" when the environment has no NODE_ENV.
C6_Original ==
    (pc = "done" /\ ~options.strict) =>
        /\ DOMAIN result.props = (DOMAIN env) \cup (DOMAIN output)
        /\ \A k \in DOMAIN output : result.props[k] = output[k]
        /\ \A k \in (DOMAIN env) \ (DOMAIN output) : result.props[k] = env[k]
        /\ "NODE_ENV" \notin DOMAIN env => Get(result.props, "NODE_ENV") = "s:production"

\* C6, amended: in non-strict mode and with no transformer, the returned
\* object is the merge of the working environment with the validated output,
\* the output winning; it holds NODE_ENV = "production" when the environment
\* has no NODE_ENV and the user's spec map declares no NODE_ENV.
C6_NonStrictMerge ==
    (pc = "done" /\ ~options.strict /\ options.transformer = "none") =>
        /\ DOMAIN result.props = (DOMAIN env) \cup (DOMAIN output)
        /\ \A k \in DOMAIN output : result.props[k] = output[k]
        /\ \A k \in (DOMAIN env) \ (DOMAIN output) : result.props[k] = env[k]
        /\ ("NODE_ENV" \notin DOMAIN env /\ "NODE_ENV" \notin DOMAIN userSpecs)
              => Get(result.props, "NODE_ENV") = "s:production"

\* Witness of C6: a returned non-strict call without NODE_ENV in which a
\* validated value differs from the raw one and an undeclared key passes
C6_Witness ==
    /\ pc = "done" /\ ~options.strict /\ options.transformer = "none"
    /\ "NODE_ENV" \notin DOMAIN env
    /\ Get(result.props, "NODE_ENV") = "s:production"
    /\ \E k \in DOMAIN output : k \in DOMAIN env /\ output[k] # env[k]

\* C7: the caller's environment object holds the same keys and values
\* after the call as before it.
C7_InputEnvUnchanged == inputEnv = inputEnv0

\* C8: without a transformer, the flags of the returned object are derived
\* from the validated NODE_ENV, at most one of isDev, isProd, isTest is true,
\* and they stay so after the caller's writes.
C8_Flags ==
    (pc = "done" /\ options.transformer = "none") =>
        LET m == Get(output, "NODE_ENV")
            f == result.flags
        IN  /\ result.hasFlags
            /\ f.isDevelopment = (m = "s:development")
            /\ f.isDev = (m = "s:development")
            /\ f.isProduction = (m = "s:production")
            /\ f.isProd = (m = "s:production")
            /\ f.isTest = (m = "s:test")
            /\ Cardinality({x \in {"isDev", "isProd", "isTest"} : f[x]}) <= 1
            /\ m = "s:test" => (f.isTest /\ ~f.isDev /\ ~f.isProd)

\* Witness of C8: a returned object of mode test, after a write to a flag
C8_Witness ==
    /\ pc = "done" /\ options.transformer = "none"
    /\ Get(output, "NODE_ENV") = "s:test"
    /\ result.flags.isTest
    /\ writes > 0

\* C9: the keys are attempted once each, the keys without requiredWhen
\* first, in declaration order, then the keys with requiredWhen in the order
\* met; validateSpecs recurses at most once.
C9_OrderOfAttempts ==
    LET order == NotDeferred \o Deferred
    IN  /\ depth <= 1
        /\ pc # "start" =>
             /\ Len(attempts) <= Len(order)
             /\ attempts = SubSeq(order, 1, Len(attempts))
        /\ Validated => attempts = order

\* Witness of C9: a completed run with a deferred key declared before a key
\* that is not deferred
C9_Witness ==
    /\ pc = "done"
    /\ depth = 1
    /\ specs[userKeys[1]].requiredWhen # "none"
    /\ specs[userKeys[2]].requiredWhen = "none"
    /\ attempts = <<"NODE_ENV", userKeys[2], userKeys[1]>>

\* C10 as stated: the output passed to requiredWhen holds no entry for any
\* key that carries requiredWhen.
C10_Original ==
    \A i \in 1..Len(rwCalls) :
        \A k \in rwCalls[i].seen : specs[k].requiredWhen = "none"

\* C10, amended: the output passed to the requiredWhen of a deferred key
\* holds no entry for the key itself nor for a deferred key that comes after
\* it in the queue; it holds the entries of the keys without requiredWhen
\* and of the deferred keys before it that validated.
C10_SeesOnlyEarlierKeys ==
    \A i \in 1..Len(rwCalls) :
        LET k == rwCalls[i].key
            seen == rwCalls[i].seen
        IN  /\ k \in Range(deferKeys)
            /\ \A j \in 1..Len(deferKeys) :
                 j >= IndexOf(deferKeys, k) => deferKeys[j] \notin seen
            /\ \A j \in 1..Len(deferKeys) :
                 (j < IndexOf(deferKeys, k) /\ deferKeys[j] \notin DOMAIN failed)
                    => deferKeys[j] \in seen
            /\ \A n \in Range(NotDeferred) : n \in seen <=> n \in DOMAIN output

\* Witness of C10: requiredWhen was handed an output that holds the entry of
\* an earlier deferred key
C10_Witness ==
    \E i \in 1..Len(rwCalls) :
        \E k \in rwCalls[i].seen : specs[k].requiredWhen # "none"

====
